---- MODULE Spec2Model ----
(***************************************************************************)
(* Model of the two bots of Manager-Client-Telegram-Bot and of the         *)
(* worksheet they share.                                                   *)
(*                                                                         *)
(*   src/Manager.py  the reviewer process: the /check sweep and the        *)
(*                   accept/reject callback handler                        *)
(*   src/Client.py   the applicant process: /start, the password step and  *)
(*                   the status display, with its cache and rate limits    *)
(*                                                                         *)
(* A handler is a coroutine: the code between two awaits runs as one step, *)
(* and at every await another handler of the same process, or the other    *)
(* process, may run.  The worksheet calls are blocking calls and therefore *)
(* part of the step in which they occur.  Every worksheet call and every   *)
(* Telegram call may fail; the failure is an input of the step.            *)
(***************************************************************************)
EXTENDS Integers, Sequences, FiniteSets, TLC

(***************************************************************************)
(* Bounds of the model.                                                    *)
(***************************************************************************)
NSlots == 2

\* rate_limits.max_unknown_attempts and rate_limits.unknown_ban_minutes
MaxUnknownAttempts == 2

UnknownBanMinutes == 2

\* rate_limits.max_logged_requests and rate_limits.logged_limit_minutes
MaxLoggedRequests == 2

LoggedLimitMinutes == 2

\* cache_settings.max_cache_size
MaxCacheSize == 2

\* the clock runs from 0 to MaxTime, in minutes
MaxTime == 4

\* the longest sequence of direct _set_cache calls that is followed
MaxPuts == 4

(***************************************************************************)
(* The worksheet.  Row 1 holds the headers, the data rows start at 2.      *)
(***************************************************************************)
Rows == {2, 3}

LastRow == 3

Slots == 1..NSlots

\* config['admin_ids'], in the order of the list
AdminIds == <<"admin1", "admin2">>

\* mutant: the handlers let every sender through
IsAdminAlways(user) == TRUE

IsAdmin(user) == \E i \in 1..Len(AdminIds) : AdminIds[i] = user

\* whether the sender of an update is one of config['admin_ids']; kept with
\* the handler run it started
SenderClass(user) ==
  IF \E i \in 1..Len(AdminIds) : AdminIds[i] = user THEN "listed" ELSE "unlisted"

\* the identities that can send the reviewer bot an update
ReviewerUsers == {"admin1", "admin2", "guest"}

\* the Committee cell of a row (written by the form, never by the bots)
CommitteeOf(r) == IF r % 2 = 0 THEN "media" ELSE "events"

\* config['committee_links'].get(committee, "")
CommitteeLink(committee) == IF committee = "media" THEN "link_media" ELSE ""

\* the Username and Password cells of a row (written by the form)
UsernameOf(r) == IF r % 2 = 0 THEN "@Alice" ELSE "bob"

PasswordOf(r) == IF r % 2 = 0 THEN "pw_a" ELSE "pw_b"

\* str.lower() on the cell values that occur
Lower(s) ==
  CASE s = "Pending" -> "pending"
    [] s = "Accepted" -> "accepted"
    [] s = "Rejected" -> "rejected"
    [] s = "Yes" -> "yes"
    [] OTHER -> s

Terminal == {"Accepted", "Rejected"}

\* the outcomes of one worksheet write: done, refused, or an error raised
\* to the caller although the cells were changed
WriteResults == {"ok", "fail", "lost"}

WriteApplied(w) == w \in {"ok", "lost"}

\* mutant: no write result is reported as an exception
WriteRaisesNever(w) == FALSE

WriteRaises(w) == w \in {"fail", "lost"}

VARIABLES
  sheet,              \* the worksheet: row -> its cells
  prompted,           \* rows for which a review prompt with buttons was delivered
  processed_records,  \* ManagerBot.processed_records
  chk,                \* the running check_command handler
  dec,                \* the handle_decision handlers of this process lifetime
  termW,              \* per row, how many terminal Status writes reached the sheet (0, 1, 2 = more)
  cache_enabled,      \* GoogleSheetsClient._cache_enabled
  user_cache,         \* GoogleSheetsClient._user_cache, in insertion order
  user_attempts,      \* ClientBot.user_attempts
  logged_user_requests, \* ClientBot.logged_user_requests
  now,                \* datetime.now(), in minutes
  conv,               \* per identity: the ConversationHandler state and context.user_data
  reply,              \* per identity: the last message the applicant bot sent
  puts,               \* the keys handed to _set_cache by the CachePut steps, in call order
  last                \* the last update the applicant bot handled, or what happened since

\* the memory of the applicant process, and the clock
cvars == <<cache_enabled, user_cache, user_attempts, logged_user_requests, now, conv, reply, puts, last>>

vars == <<sheet, prompted, processed_records, chk, dec, termW, cvars>>

(***************************************************************************)
(* OptimizedGoogleSheetsManager                                            *)
(***************************************************************************)

\* get_pending_records: the test that selects a row
IsPendingRecord(status) == status = "" \/ Lower(status) = "pending"

RECURSIVE PendingFrom(_, _)
PendingFrom(sh, r) ==
  IF r > LastRow THEN <<>>
  ELSE IF IsPendingRecord(sh[r].Status) THEN <<r>> \o PendingFrom(sh, r + 1)
  ELSE PendingFrom(sh, r + 1)

\* get_pending_records: the selected rows in sheet order; [] on a read error
get_pending_records(sh, readOk) == IF readOk THEN PendingFrom(sh, 2) ELSE <<>>

\* mutant: the Status cell is left out of the batch
update_group_link_only(sh, r, status, group_link) ==
  [sh EXCEPT ![r] = IF group_link # "" THEN [@ EXCEPT !.Group_Link = group_link] ELSE @]

\* mutant: the batch also empties the Logged_In cell
update_status_and_logout(sh, r, status, group_link) ==
  [sh EXCEPT ![r] =
     IF group_link # ""
     THEN [@ EXCEPT !.Status = status, !.Group_Link = group_link, !.Logged_In = ""]
     ELSE [@ EXCEPT !.Status = status, !.Logged_In = ""]]

\* update_status_and_group_link: one batch_update of the Status cell and,
\* when group_link is not empty, of the Group_Link cell
update_status_and_group_link(sh, r, status, group_link) ==
  [sh EXCEPT ![r] =
     IF group_link # ""
     THEN [@ EXCEPT !.Status = status, !.Group_Link = group_link]
     ELSE [@ EXCEPT !.Status = status]]

StoreWrite(sh, r, status, group_link, w) ==
  IF WriteApplied(w) THEN update_status_and_group_link(sh, r, status, group_link) ELSE sh

\* mutant: every applicant counts as logged in
ManagerIsLoggedInAlways(rec) == TRUE

\* ManagerBot._is_user_logged_in
ManagerIsLoggedIn(rec) == Lower(rec.Logged_In) \in {"yes", "y", "true", "1"}

CountWrite(tw, r, status, w) ==
  IF WriteApplied(w) /\ status \in Terminal
  THEN [tw EXCEPT ![r] = IF @ < 2 THEN @ + 1 ELSE 2]
  ELSE tw

(***************************************************************************)
(* ManagerBot.check_command with send_request_for_review                   *)
(***************************************************************************)
ChkIdle == [pc |-> "idle", pending |-> <<>>, idx |-> 0, k |-> 0, all |-> TRUE,
            some |-> FALSE, succ |-> 0, fail |-> 0, out |-> "none", sender |-> "none"]

\* the handler has returned (or an exception left it): its locals are gone,
\* the counts are what the last message showed
ChkDone(c, out) ==
  [ChkIdle EXCEPT !.pc = "done", !.out = out, !.succ = c.succ, !.fail = c.fail,
                  !.sender = c.sender]

\* send_request_for_review: sent_to_all after one more delivery attempt
SentToAll(all, delivered) == all /\ delivered

\* mutant: the row is marked whatever the dispatch returned
MarksAlways(sent) == TRUE

\* check_command: whether the row is marked Pending after the dispatch
MarksPending(sent) == sent

\* /check arrives: the admin test and the first reply
CheckStart(user) ==
  /\ chk.pc \in {"idle", "done"}
  /\ chk' = IF IsAdmin(user)
            THEN [ChkIdle EXCEPT !.pc = "scan", !.sender = SenderClass(user)]
            ELSE ChkDone([ChkIdle EXCEPT !.sender = SenderClass(user)], "Denied")
  /\ UNCHANGED <<sheet, prompted, processed_records, dec, termW, cvars>>

\* after the first reply: the scan and the message that announces it
CheckScan(readOk, editOk) ==
  /\ chk.pc = "scan"
  /\ LET pending == get_pending_records(sheet, readOk) IN
       chk' = IF pending = <<>>
              THEN ChkDone(chk, "Empty")
              ELSE IF ~editOk
              THEN ChkDone(chk, "Crash")
              ELSE [chk EXCEPT !.pc = "send", !.pending = pending, !.idx = 1,
                               !.k = 1, !.all = TRUE, !.some = FALSE]
  /\ UNCHANGED <<sheet, prompted, processed_records, dec, termW, cvars>>

\* one delivery of the prompt of the current row to admin_ids[k]; after the
\* last one send_request_for_review returns and the row is marked or counted
CheckSend(delivered, w) ==
  /\ chk.pc = "send"
  /\ LET r == chk.pending[chk.idx]
         all == SentToAll(chk.all, delivered)
         some == chk.some \/ delivered
     IN
       /\ prompted' = IF delivered THEN prompted \cup {r} ELSE prompted
       /\ IF chk.k < Len(AdminIds)
          THEN /\ w = "ok"
               /\ chk' = [chk EXCEPT !.k = @ + 1, !.all = all, !.some = some]
               /\ UNCHANGED <<sheet, termW>>
          ELSE IF MarksPending(all)
          THEN /\ sheet' = StoreWrite(sheet, r, "Pending", "", w)
               /\ termW' = CountWrite(termW, r, "Pending", w)
               /\ chk' = IF WriteRaises(w)
                         THEN ChkDone(chk, "Crash")
                         ELSE [chk EXCEPT !.pc = "sleep", !.all = all, !.some = some,
                                          !.succ = @ + 1]
          ELSE /\ w = "ok"
               /\ chk' = [chk EXCEPT !.pc = "sleep", !.all = all, !.some = some,
                                      !.fail = @ + 1]
               /\ UNCHANGED <<sheet, termW>>
  /\ UNCHANGED <<processed_records, dec, cvars>>

\* after asyncio.sleep(1): the next row, or the final summary
CheckSleep(editOk) ==
  /\ chk.pc = "sleep"
  /\ chk' = IF chk.idx < Len(chk.pending)
            THEN [chk EXCEPT !.pc = "send", !.idx = @ + 1, !.k = 1, !.all = TRUE,
                             !.some = FALSE]
            ELSE IF editOk
            THEN ChkDone(chk, "Summary")
            ELSE ChkDone(chk, "Crash")
  /\ (chk.idx < Len(chk.pending) => editOk)
  /\ UNCHANGED <<sheet, prompted, processed_records, dec, termW, cvars>>

(***************************************************************************)
(* ManagerBot.handle_decision                                              *)
(***************************************************************************)
\* sent is the local notification_sent: None until a notification was tried;
\* sender is what SenderClass says of the sender, for as long as the run lasts
DecIdle == [pc |-> "idle", action |-> "none", row |-> 0, out |-> "none", sent |-> "None",
            sender |-> "none"]

\* the handler has passed step 3 (processed_records.add)
HasClaimed(slot) ==
  \/ slot.pc \in {"notify", "finish"}
  \/ slot.pc = "except" /\ slot.out = "none"
  \/ slot.pc = "done" /\ slot.out \in {"Success", "Error", "CrashClaimed"}

\* the action part of a callback token
Actions == {"accept", "reject"}

\* mutant: step 2 lets every row through
IsUndecidedAlways(status) == TRUE

\* mutant: step 2 lets no row through
IsUndecidedNever(status) == FALSE

\* step 2: the re-read Status leaves the row open for a decision
IsUndecided(status) == status \in {"", "Pending"}

\* step 3: the claim
Claim(set, r) == set \cup {r}

\* mutant: the except clause keeps the claim
UnclaimNever(set, r) == set

\* the except clause: processed_records.discard(row_number)
Unclaim(set, r) == set \ {r}

\* the Status a decision writes and the link that goes with it
DecisionStatus(action) == IF action = "accept" THEN "Accepted" ELSE "Rejected"

\* mutant: the link of the committee is written with a reject too
DecisionLinkAlways(action, r) == CommitteeLink(CommitteeOf(r))

DecisionLink(action, r) ==
  IF action = "accept" THEN CommitteeLink(CommitteeOf(r)) ELSE ""

\* a callback arrives: everything up to the first await
DecideStart(d, user, action, r, readOk, w) ==
  /\ dec[d].pc = "idle"
  /\ \A e \in Slots : e < d => dec[e].pc # "idle"
  /\ r \in prompted
  /\ LET slot == [DecIdle EXCEPT !.action = action, !.row = r,
                                 !.sender = SenderClass(user)] IN
     IF ~IsAdmin(user)
     THEN /\ readOk /\ w = "ok"
          /\ dec' = [dec EXCEPT ![d] = [slot EXCEPT !.pc = "reply", !.out = "Denied"]]
          /\ UNCHANGED <<sheet, processed_records, termW>>
     ELSE IF r \in processed_records
     THEN /\ readOk /\ w = "ok"
          /\ dec' = [dec EXCEPT ![d] = [slot EXCEPT !.pc = "reply", !.out = "Conflict"]]
          /\ UNCHANGED <<sheet, processed_records, termW>>
     ELSE IF ~readOk
     THEN /\ w = "ok"
          /\ dec' = [dec EXCEPT ![d] = [slot EXCEPT !.pc = "reply", !.out = "NotFound"]]
          /\ UNCHANGED <<sheet, processed_records, termW>>
     ELSE IF ~IsUndecided(sheet[r].Status)
     THEN /\ w = "ok"
          /\ dec' = [dec EXCEPT ![d] = [slot EXCEPT !.pc = "reply", !.out = "Conflict"]]
          /\ UNCHANGED <<sheet, processed_records, termW>>
     ELSE /\ processed_records' = Claim(processed_records, r)
          /\ sheet' = StoreWrite(sheet, r, DecisionStatus(action), DecisionLink(action, r), w)
          /\ termW' = CountWrite(termW, r, DecisionStatus(action), w)
          /\ dec' = [dec EXCEPT ![d] =
               [slot EXCEPT !.pc = IF WriteRaises(w) THEN "except"
                                   ELSE IF ManagerIsLoggedIn(sheet[r]) THEN "notify"
                                   ELSE "finish"]]
  /\ UNCHANGED <<prompted, chk, cvars>>

\* the query.answer of an early return
DecideReply(d, ok) ==
  /\ dec[d].pc = "reply"
  /\ dec' = [dec EXCEPT ![d] =
       IF ok THEN [@ EXCEPT !.pc = "done", !.sender = "none"]
       ELSE IF @.out = "Denied" THEN [@ EXCEPT !.pc = "done", !.out = "Crash", !.sender = "none"]
       ELSE [@ EXCEPT !.pc = "except"]]
  /\ UNCHANGED <<sheet, prompted, processed_records, chk, termW, cvars>>

\* send_notification_to_user: returns whether the message was delivered
DecideNotify(d, delivered) ==
  /\ dec[d].pc = "notify"
  /\ dec' = [dec EXCEPT ![d].pc = "finish",
                         ![d].sent = IF delivered THEN "True" ELSE "False"]
  /\ UNCHANGED <<sheet, prompted, processed_records, chk, termW, cvars>>

\* query.edit_message_caption and the final query.answer: nothing of the
\* process or of the sheet changes between the two awaits
DecideFinish(d, ok) ==
  /\ dec[d].pc = "finish"
  /\ dec' = [dec EXCEPT ![d] =
       IF ok THEN [@ EXCEPT !.pc = "done", !.out = "Success", !.sent = "None", !.sender = "none"]
       ELSE [@ EXCEPT !.pc = "except", !.sent = "None"]]
  /\ UNCHANGED <<sheet, prompted, processed_records, chk, termW, cvars>>

\* the except clause: report the failure, then give the row up
DecideExcept(d, ok) ==
  /\ dec[d].pc = "except"
  /\ IF ok
     THEN /\ processed_records' = Unclaim(processed_records, dec[d].row)
          /\ dec' = [dec EXCEPT ![d] =
               [@ EXCEPT !.pc = "done", !.sender = "none",
                         !.out = IF HasClaimed(dec[d]) THEN "Error" ELSE "ErrorEarly"]]
     ELSE /\ dec' = [dec EXCEPT ![d] =
               [@ EXCEPT !.pc = "done", !.sender = "none",
                         !.out = IF HasClaimed(dec[d]) THEN "CrashClaimed" ELSE "Crash"]]
          /\ UNCHANGED processed_records
  /\ UNCHANGED <<sheet, prompted, chk, termW, cvars>>

\* the reviewer process is started again: its memory is empty
ManagerRestart ==
  /\ processed_records' = {}
  /\ chk' = ChkIdle
  /\ dec' = [d \in Slots |-> DecIdle]
  /\ \/ processed_records # {}
     \/ chk # ChkIdle
     \/ dec # [d \in Slots |-> DecIdle]
  /\ UNCHANGED <<sheet, prompted, termW, cvars>>

(***************************************************************************)
(* What the applicant process writes to the sheet, seen from the reviewer  *)
(* process: GoogleSheetsClient.update_user_fields with Telegram_ID         *)
(* (start_command) or with Logged_In (handle_password).                    *)
(***************************************************************************)
ApplicantIds == {"101"}

ApplicantWrite(r, field, value) ==
  /\ \/ field = "Telegram_ID" /\ value \in ApplicantIds
     \/ field = "Logged_In" /\ value = "Yes"
  /\ sheet' = [sheet EXCEPT ![r] =
       IF field = "Telegram_ID" THEN [@ EXCEPT !.Telegram_ID = value]
       ELSE [@ EXCEPT !.Logged_In = value]]
  /\ sheet' # sheet
  /\ UNCHANGED <<prompted, processed_records, chk, dec, termW, cvars>>

(***************************************************************************)
(* GoogleSheetsClient: the record cache, the lookups and the cell writes   *)
(***************************************************************************)
\* str(update.effective_user.id) of the identities that talk to the bot
TelegramIds == {"101", "102", "103", "104", "105"}

\* a lookup that returned None or {}: both are false in a condition
NoRec ==
  [row_number |-> 0, Status |-> "", Group_Link |-> "", Telegram_ID |-> "",
   Logged_In |-> "", Username |-> "", Password |-> "", Committee |-> ""]

\* the truth value of a record in `if record:`
Truthy(rec) == rec.row_number # 0

\* get_record_by_row: the cells of the row with its number; {} on a read error
get_record_by_row(sh, r, readOk) ==
  IF readOk
  THEN [row_number |-> r, Status |-> sh[r].Status, Group_Link |-> sh[r].Group_Link,
        Telegram_ID |-> sh[r].Telegram_ID, Logged_In |-> sh[r].Logged_In,
        Username |-> sh[r].Username, Password |-> sh[r].Password,
        Committee |-> sh[r].Committee]
  ELSE NoRec

\* strip().lstrip('@').lower() on the usernames that occur
NormUsername(u) ==
  CASE u = "@Alice" -> "alice"
    [] u = "Alice" -> "alice"
    [] OTHER -> u

\* the position of the key tg_<id> in the cache, 0 when it is not a key
CachePos(c, id) ==
  IF \E i \in 1..Len(c) : c[i].key = id
  THEN CHOOSE i \in 1..Len(c) : c[i].key = id
  ELSE 0

_get_from_cache(en, c, id) ==
  IF ~en \/ id = "" THEN NoRec
  ELSE IF CachePos(c, id) = 0 THEN NoRec
  ELSE c[CachePos(c, id)].rec

\* mutant: a new key is stored without making room for it
_set_cache_no_evict(en, c, id, rec) ==
  IF ~en \/ id = "" THEN c
  ELSE IF CachePos(c, id) # 0 THEN [c EXCEPT ![CachePos(c, id)].rec = rec]
  ELSE Append(c, [key |-> id, rec |-> rec])

\* mutant: a key that is stored again moves to the end of the order
_set_cache_refresh(en, c, id, rec) ==
  IF ~en \/ id = "" THEN c
  ELSE IF CachePos(c, id) # 0
  THEN Append(SelectSeq(c, LAMBDA e : e.key # id), [key |-> id, rec |-> rec])
  ELSE Append(IF Len(c) >= MaxCacheSize THEN Tail(c) ELSE c, [key |-> id, rec |-> rec])

\* _set_cache: an existing key keeps its place; a new key is appended, after
\* the oldest key was removed when the cache is full
_set_cache(en, c, id, rec) ==
  IF ~en \/ id = "" THEN c
  ELSE IF CachePos(c, id) # 0 THEN [c EXCEPT ![CachePos(c, id)].rec = rec]
  ELSE Append(IF Len(c) >= MaxCacheSize THEN Tail(c) ELSE c, [key |-> id, rec |-> rec])

\* the first of a set of rows, 0 when there is none
FirstRow(S) == IF S = {} THEN 0 ELSE CHOOSE r \in S : \A q \in S : r <= q

\* find_user_by_telegram_id: the record and the cache it leaves
find_user_by_telegram_id(en, c, sh, id, colOk, rowOk) ==
  LET cached == _get_from_cache(en, c, id)
      r == FirstRow({q \in Rows : sh[q].Telegram_ID = id})
      record == get_record_by_row(sh, r, rowOk)
  IN IF Truthy(cached) THEN [record |-> cached, cache |-> c]
     ELSE IF ~colOk \/ r = 0 THEN [record |-> NoRec, cache |-> c]
     ELSE [record |-> record, cache |-> _set_cache(en, c, id, record)]

\* find_user_by_username: the first row whose normalised Username is the
\* normalised username of the sender
find_user_by_username(en, c, sh, username, id, colOk, rowOk) ==
  LET cached == _get_from_cache(en, c, id)
      r == FirstRow({q \in Rows : NormUsername(sh[q].Username) = NormUsername(username)})
      record == get_record_by_row(sh, r, rowOk)
  IN IF username = "" THEN [record |-> NoRec, cache |-> c]
     ELSE IF Truthy(cached) THEN [record |-> cached, cache |-> c]
     ELSE IF ~colOk \/ r = 0 THEN [record |-> NoRec, cache |-> c]
     ELSE [record |-> record, cache |-> _set_cache(en, c, id, record)]

\* the two fields the bot writes
SetField(rec, field, value) ==
  IF field = "Telegram_ID" THEN [rec EXCEPT !.Telegram_ID = value]
  ELSE [rec EXCEPT !.Logged_In = value]

\* mutant: the cell is not written, the local record and the cache are
update_user_fields_local(en, c, sh, record, field, value, id, w) ==
  [record |-> SetField(record, field, value),
   cache |-> _set_cache(en, c, id, SetField(record, field, value)),
   sheet |-> sh]

\* mutant: the updated copy is cached before the cell is written
update_user_fields_cache_first(en, c, sh, record, field, value, id, w) ==
  LET updated == SetField(record, field, value)
      sh1 == IF WriteApplied(w)
             THEN [sh EXCEPT ![record.row_number] = SetField(@, field, value)]
             ELSE sh
  IN [record |-> IF WriteRaises(w) THEN record ELSE updated,
      cache |-> _set_cache(en, c, id, updated), sheet |-> sh1]

\* update_user_fields: one batch_update of the cell; on success the updated
\* copy is cached and returned, on an error the record that was passed in
update_user_fields(en, c, sh, record, field, value, id, w) ==
  LET updated == SetField(record, field, value)
      sh1 == IF WriteApplied(w)
             THEN [sh EXCEPT ![record.row_number] = SetField(@, field, value)]
             ELSE sh
  IN IF WriteRaises(w) THEN [record |-> record, cache |-> c, sheet |-> sh1]
     ELSE [record |-> updated, cache |-> _set_cache(en, c, id, updated), sheet |-> sh1]

\* hash_password: SHA-256, taken to be free of collisions
hash_password(p) == <<"sha256", p>>

(***************************************************************************)
(* ClientBot: the ban of unknown identities and the request window         *)
(***************************************************************************)
\* banned_until = None
NoBan == -1

\* dict.pop(key, None)
PopNever(f, id) == f

Pop(f, id) == [k \in DOMAIN f \ {id} |-> f[k]]

\* dict[key] = value
Put(f, id, v) == [k \in DOMAIN f \cup {id} |-> IF k = id THEN v ELSE f[k]]

\* _is_user_banned at time t: the answer and the attempts it leaves
\* mutant: a ban is never reported and never cleared
_is_user_banned_open(a, id, t) == [banned |-> FALSE, attempts |-> a]

_is_user_banned(a, id, t) ==
  IF id \notin DOMAIN a THEN [banned |-> FALSE, attempts |-> a]
  ELSE IF a[id].banned_until # NoBan /\ t < a[id].banned_until
       THEN [banned |-> TRUE, attempts |-> a]
  ELSE IF a[id].banned_until # NoBan /\ t >= a[id].banned_until
       THEN [banned |-> FALSE, attempts |-> Pop(a, id)]
  ELSE [banned |-> FALSE, attempts |-> a]

\* mutant: the ban is set one failure later
BanThresholdLate(count) == count > MaxUnknownAttempts

\* _record_failed_attempt: the test that sets banned_until
BanThreshold(count) == count >= MaxUnknownAttempts

\* _record_failed_attempt at time t (first_attempt is written and never read)
_record_failed_attempt(a, id, t) ==
  LET a1 == IF id \notin DOMAIN a
            THEN Put(a, id, [count |-> 1, banned_until |-> NoBan])
            ELSE [a EXCEPT ![id].count = @ + 1]
  IN IF BanThreshold(a1[id].count)
     THEN [a1 EXCEPT ![id].banned_until = t + UnknownBanMinutes]
     ELSE a1

\* mutant: a request is kept one minute longer
IsRecentLate(t, req) == t - req <= LoggedLimitMinutes

\* _check_logged_user_rate_limit: the requests that stay in the window
IsRecent(t, req) == t - req < LoggedLimitMinutes

RECURSIVE RecentRequests(_, _)
RecentRequests(reqs, t) ==
  IF reqs = <<>> THEN <<>>
  ELSE IF IsRecent(t, Head(reqs)) THEN <<Head(reqs)>> \o RecentRequests(Tail(reqs), t)
  ELSE RecentRequests(Tail(reqs), t)

\* _check_logged_user_rate_limit at time t: the answer and the lists it leaves
_check_logged_user_rate_limit(l, id, t) ==
  LET recent == RecentRequests(IF id \in DOMAIN l THEN l[id] ELSE <<>>, t)
  IN IF Len(recent) >= MaxLoggedRequests
     THEN [limited |-> TRUE, requests |-> Put(l, id, recent)]
     ELSE [limited |-> FALSE, requests |-> Put(l, id, Append(recent, t))]

\* mutant: no record counts as logged in
ClientIsLoggedInNever(rec) == FALSE

\* ClientBot._is_user_logged_in
ClientIsLoggedIn(rec) == Lower(rec.Logged_In) \in {"yes", "y", "true", "1"}

(***************************************************************************)
(* ClientBot.show_status with send_accepted, send_rejected, send_pending   *)
(***************************************************************************)
Message(kind, link) == [kind |-> kind, link |-> link]

NoMessage == Message("none", "")

StatusKinds == {"accepted", "rejected", "pending"}

\* the message for a record: send_accepted shows the Group_Link of the record
StatusMessage(rec) ==
  IF Lower(rec.Status) = "accepted" THEN Message("accepted", rec.Group_Link)
  ELSE IF Lower(rec.Status) = "rejected" THEN Message("rejected", "")
  ELSE Message("pending", "")

\* show_status: a record that already holds a decision is not read again
SkipsReread(rec) == Lower(rec.Status) \in {"accepted", "rejected"}

\* show_status: the record, the cache and the message it leaves.  A record
\* whose Status is accepted or rejected is shown as it is; otherwise the
\* Status cell is read, and when it differs the Group_Link cell is read too
\* and both are put into the record and the cache; an error of either read
\* leaves the record as it was.
show_status(en, c, sh, id, rec, statOk, linkOk) ==
  LET fresh == [rec EXCEPT !.Status = sh[rec.row_number].Status,
                           !.Group_Link = sh[rec.row_number].Group_Link]
      changed == Lower(sh[rec.row_number].Status) # Lower(rec.Status)
  IN IF SkipsReread(rec)
     THEN [record |-> rec, cache |-> c, message |-> StatusMessage(rec)]
     ELSE IF statOk /\ changed /\ linkOk
     THEN [record |-> fresh, cache |-> _set_cache(en, c, id, fresh),
           message |-> StatusMessage(fresh)]
     ELSE [record |-> rec, cache |-> c, message |-> StatusMessage(rec)]

(***************************************************************************)
(* ClientBot.start_command and ClientBot.handle_password.  All the state   *)
(* a handler changes is changed between its first await (the random delay  *)
(* of start_command) and its last (the reply), so a handler is one step.   *)
(***************************************************************************)
\* the worksheet reads of one handler run, each of which may fail
IOCalls == {"tid_col", "row1", "user_col", "row2", "status_cell", "link_cell"}

\* a call that is not reached does not fail: the row is read only after its
\* column was, the Group_Link cell only after the Status cell
IOResults ==
  {io \in [IOCalls -> BOOLEAN] :
     /\ io["tid_col"] \/ io["row1"]
     /\ io["user_col"] \/ io["row2"]
     /\ io["status_cell"] \/ io["link_cell"]}

\* handle_password makes no lookup
IOStatusResults ==
  {io \in IOResults : io["tid_col"] /\ io["row1"] /\ io["user_col"] /\ io["row2"]}

IOAllOk == [call \in IOCalls |-> TRUE]

\* user.username as Telegram reports it, and the texts an applicant types
Usernames == {"", "alice"}

PasswordTexts == {"pw_a", "nope"}

ConvIdle == [state |-> "END", user_record |-> NoRec, telegram_id |-> ""]

\* an update, or another event, as `last` records it: what it was, whose it
\* was, the text of a password message or the username of the sender of a
\* /start, and whether every worksheet call of the handler was given to
\* succeed
Event(op, id, text, clean) ==
  [op |-> op, id |-> id, text |-> text, clean |-> clean, status_read |-> TRUE,
   write |-> "none"]

\* the event of a handler run with the worksheet results io and w; it also
\* records whether the read of the Status cell was given to succeed and the
\* result of the call of update_user_fields when the run has made one
HandlerEvent(op, id, text, io, w, wrote) ==
  [Event(op, id, text, io = IOAllOk /\ w = "ok")
     EXCEPT !.status_read = io["status_cell"],
            !.write = IF wrote THEN w ELSE "none"]

NoEvent == Event("none", "", "", TRUE)

\* start_command: the lookup by Telegram_ID, then by username with the
\* write of the Telegram_ID cell
Lookup(id, username, io, w) ==
  LET f1 == find_user_by_telegram_id(cache_enabled, user_cache, sheet, id,
                                     io["tid_col"], io["row1"])
      f2 == find_user_by_username(cache_enabled, f1.cache, sheet, username, id,
                                  io["user_col"], io["row2"])
      u == update_user_fields(cache_enabled, f2.cache, sheet, f2.record,
                              "Telegram_ID", id, id, w)
  IN IF Truthy(f1.record) \/ username = ""
     THEN [record |-> f1.record, cache |-> f1.cache, sheet |-> sheet, wrote |-> FALSE]
     ELSE IF Truthy(f2.record)
     THEN [record |-> u.record, cache |-> u.cache, sheet |-> u.sheet, wrote |-> TRUE]
     ELSE [record |-> f2.record, cache |-> f2.cache, sheet |-> sheet, wrote |-> FALSE]

StartCommand(id, username, io, w) ==
  LET ban == _is_user_banned(user_attempts, id, now)
      found == Lookup(id, username, io, w)
      rl == _check_logged_user_rate_limit(logged_user_requests, id, now)
      st == show_status(cache_enabled, found.cache, found.sheet, id, found.record,
                        io["status_cell"], io["link_cell"])
  IN
  /\ IF ban.banned
     THEN /\ reply' = [reply EXCEPT ![id] = Message("banned", "")]
          /\ conv' = [conv EXCEPT ![id].state = "END"]
          /\ UNCHANGED <<sheet, user_cache, user_attempts, logged_user_requests>>
     ELSE IF ~Truthy(found.record)
     THEN /\ user_attempts' = _record_failed_attempt(ban.attempts, id, now)
          /\ reply' = [reply EXCEPT ![id] = Message("not_found", "")]
          /\ conv' = [conv EXCEPT ![id].state = "END"]
          /\ user_cache' = found.cache
          /\ sheet' = found.sheet
          /\ UNCHANGED logged_user_requests
     ELSE IF ~ClientIsLoggedIn(found.record)
     THEN /\ user_attempts' = Pop(ban.attempts, id)
          /\ reply' = [reply EXCEPT ![id] = Message("welcome", "")]
          /\ conv' = [conv EXCEPT ![id] = [state |-> "WAITING_PASSWORD",
                        user_record |-> found.record, telegram_id |-> id]]
          /\ user_cache' = found.cache
          /\ sheet' = found.sheet
          /\ UNCHANGED logged_user_requests
     ELSE IF rl.limited
     THEN /\ user_attempts' = Pop(ban.attempts, id)
          /\ logged_user_requests' = rl.requests
          /\ reply' = [reply EXCEPT ![id] = Message("rate_limited", "")]
          /\ conv' = [conv EXCEPT ![id] = [state |-> "END",
                        user_record |-> found.record, telegram_id |-> id]]
          /\ user_cache' = found.cache
          /\ sheet' = found.sheet
     ELSE /\ user_attempts' = Pop(ban.attempts, id)
          /\ logged_user_requests' = rl.requests
          /\ reply' = [reply EXCEPT ![id] = st.message]
          /\ conv' = [conv EXCEPT ![id] = [state |-> "END",
                        user_record |-> st.record, telegram_id |-> id]]
          /\ user_cache' = st.cache
          /\ sheet' = found.sheet
  /\ last' = HandlerEvent("start", id, username, io, w, ~ban.banned /\ found.wrote)
  /\ UNCHANGED <<prompted, processed_records, chk, dec, termW, cache_enabled, now, puts>>

HandlePassword(id, text, io, w) ==
  LET rec == conv[id].user_record
      tid == conv[id].telegram_id
      u == update_user_fields(cache_enabled, user_cache, sheet, rec, "Logged_In", "Yes", tid, w)
      st == show_status(cache_enabled, u.cache, u.sheet, tid, u.record,
                        io["status_cell"], io["link_cell"])
  IN
  /\ conv[id].state = "WAITING_PASSWORD"
  /\ IF ~Truthy(rec)
     THEN /\ reply' = [reply EXCEPT ![id] = Message("expired", "")]
          /\ conv' = [conv EXCEPT ![id].state = "END"]
          /\ UNCHANGED <<sheet, user_cache>>
     ELSE IF hash_password(rec.Password) # hash_password(text)
     THEN /\ reply' = [reply EXCEPT ![id] = Message("wrong_password", "")]
          /\ UNCHANGED <<conv, sheet, user_cache>>
     ELSE /\ reply' = [reply EXCEPT ![id] = st.message]
          /\ conv' = [conv EXCEPT ![id] = [state |-> "END",
                        user_record |-> st.record, telegram_id |-> tid]]
          /\ user_cache' = st.cache
          /\ sheet' = u.sheet
  /\ last' = HandlerEvent("password", id, text, io, w,
                           Truthy(rec) /\ hash_password(rec.Password) = hash_password(text))
  /\ UNCHANGED <<prompted, processed_records, chk, dec, termW, cache_enabled,
                 user_attempts, logged_user_requests, now, puts>>

\* a minute passes
Tick ==
  /\ now < MaxTime
  /\ now' = now + 1
  /\ last' = Event("tick", "", "", TRUE)
  /\ UNCHANGED <<sheet, prompted, processed_records, chk, dec, termW, cache_enabled,
                 user_cache, user_attempts, logged_user_requests, conv, reply, puts>>

\* the applicant process is started again: its memory is empty
ClientRestart ==
  /\ user_cache' = <<>>
  /\ user_attempts' = [id \in {} |-> [count |-> 0, banned_until |-> NoBan]]
  /\ logged_user_requests' = [id \in {} |-> <<>>]
  /\ conv' = [id \in TelegramIds |-> ConvIdle]
  /\ reply' = [id \in TelegramIds |-> NoMessage]
  /\ puts' = <<>>
  /\ last' = Event("restart", "", "", TRUE)
  /\ UNCHANGED <<sheet, prompted, processed_records, chk, dec, termW, cache_enabled, now>>

\* _set_cache called directly with a key and a record
CachePut(key, rec) ==
  /\ Len(puts) < MaxPuts
  /\ user_cache' = _set_cache(cache_enabled, user_cache, key, rec)
  /\ puts' = Append(puts, key)
  /\ last' = Event("put", key, "", TRUE)
  /\ UNCHANGED <<sheet, prompted, processed_records, chk, dec, termW, cache_enabled,
                 user_attempts, logged_user_requests, now, conv, reply>>

\* _get_from_cache called directly with a key: a dictionary read
CacheGet(key) ==
  /\ last' = Event("get", key,
                   IF Truthy(_get_from_cache(cache_enabled, user_cache, key))
                   THEN "hit" ELSE "miss", TRUE)
  /\ UNCHANGED <<sheet, prompted, processed_records, chk, dec, termW, cache_enabled,
                 user_cache, user_attempts, logged_user_requests, now, conv, reply, puts>>

(***************************************************************************)
(* What the reviewer process writes to the sheet, seen from the applicant  *)
(* process: the decision of handle_decision on a row whose Status it read  *)
(* as undecided, and the Pending mark of a check_command sweep, which is   *)
(* written from the scan made when the sweep began.                        *)
(***************************************************************************)
ReviewerDecide(r, action) ==
  /\ IsUndecided(sheet[r].Status)
  /\ sheet' = update_status_and_group_link(sheet, r, DecisionStatus(action), DecisionLink(action, r))
  /\ termW' = CountWrite(termW, r, DecisionStatus(action), "ok")
  /\ last' = Event("review", "", "", TRUE)
  /\ UNCHANGED <<prompted, processed_records, chk, dec, cache_enabled, user_cache,
                 user_attempts, logged_user_requests, now, conv, reply, puts>>

ReviewerMark(r) ==
  /\ sheet' = update_status_and_group_link(sheet, r, "Pending", "")
  /\ last' = Event("review", "", "", TRUE)
  /\ UNCHANGED <<prompted, processed_records, chk, dec, termW, cache_enabled, user_cache,
                 user_attempts, logged_user_requests, now, conv, reply, puts>>

(***************************************************************************)
(* Initial state: the form has filled the rows, no bot has touched them.   *)
(***************************************************************************)
InitRow(r) ==
  [Status |-> "", Group_Link |-> "", Telegram_ID |-> "", Logged_In |-> "",
   Username |-> UsernameOf(r), Password |-> PasswordOf(r),
   Committee |-> CommitteeOf(r)]

\* the applicant process has just been started
ClientInit ==
  /\ cache_enabled = TRUE
  /\ user_cache = <<>>
  /\ user_attempts = [id \in {} |-> [count |-> 0, banned_until |-> NoBan]]
  /\ logged_user_requests = [id \in {} |-> <<>>]
  /\ now = 0
  /\ conv = [id \in TelegramIds |-> ConvIdle]
  /\ reply = [id \in TelegramIds |-> NoMessage]
  /\ puts = <<>>
  /\ last = NoEvent

Init ==
  /\ sheet = [r \in Rows |-> InitRow(r)]
  /\ prompted = {}
  /\ processed_records = {}
  /\ chk = ChkIdle
  /\ dec = [d \in Slots |-> DecIdle]
  /\ termW = [r \in Rows |-> 0]
  /\ ClientInit

\* the reviewer process starts on a sheet whose rows an earlier sweep has
\* dispatched: row 2 was delivered to some reviewers only and is not marked,
\* row 3 is marked Pending; the applicant of row 2 has logged in
InitDecide ==
  /\ sheet = [r \in Rows |->
                [InitRow(r) EXCEPT !.Status = IF r = 2 THEN "" ELSE "Pending",
                                   !.Telegram_ID = IF r = 2 THEN "101" ELSE "",
                                   !.Logged_In = IF r = 2 THEN "Yes" ELSE ""]]
  /\ prompted = Rows
  /\ processed_records = {}
  /\ chk = ChkIdle
  /\ dec = [d \in Slots |-> DecIdle]
  /\ termW = [r \in Rows |-> 0]
  /\ ClientInit

CheckNext ==
  \/ \E user \in ReviewerUsers : CheckStart(user)
  \/ \E readOk \in BOOLEAN, editOk \in BOOLEAN : CheckScan(readOk, editOk)
  \/ \E delivered \in BOOLEAN, w \in WriteResults : CheckSend(delivered, w)
  \/ \E editOk \in BOOLEAN : CheckSleep(editOk)

\* the steps of the handlers in the slots S
DecideSteps(S) ==
  \/ \E d \in S, user \in ReviewerUsers, action \in Actions, r \in Rows,
        readOk \in BOOLEAN, w \in WriteResults :
        DecideStart(d, user, action, r, readOk, w)
  \/ \E d \in S, ok \in BOOLEAN : DecideReply(d, ok)
  \/ \E d \in S, delivered \in BOOLEAN : DecideNotify(d, delivered)
  \/ \E d \in S, ok \in BOOLEAN : DecideFinish(d, ok)
  \/ \E d \in S, ok \in BOOLEAN : DecideExcept(d, ok)

DecideNext == DecideSteps(Slots)

ApplicantWrites ==
  \E r \in Rows, field \in {"Telegram_ID", "Logged_In"}, value \in ApplicantIds \cup {"Yes"} :
    ApplicantWrite(r, field, value)

\* the sweep, one decision handler at a time, and the applicant's writes
ReviewNext == CheckNext \/ DecideSteps({1}) \/ ManagerRestart \/ ApplicantWrites

SpecReview == Init /\ [][ReviewNext]_vars

\* the decision handlers alone, over process restarts
SpecDecide == InitDecide /\ [][DecideNext \/ ManagerRestart]_vars

\* the sweep alone, over process restarts
SpecSweep == Init /\ [][CheckNext \/ ManagerRestart]_vars

\* the decision handlers of one process lifetime
SpecLifetime == InitDecide /\ [][DecideNext]_vars

\* the handlers of the applicant bot for the identities I
ClientSteps(I) ==
  \/ \E id \in I, username \in Usernames, io \in IOResults, w \in WriteResults :
        StartCommand(id, username, io, w)
  \/ \E id \in I, text \in PasswordTexts, io \in IOStatusResults, w \in WriteResults :
        HandlePassword(id, text, io, w)

\* the reviewers' writes to the rows R
ReviewerWrites(R) ==
  \/ \E r \in R, action \in Actions : ReviewerDecide(r, action)
  \/ \E r \in R : ReviewerMark(r)

\* one applicant and the reviewers' writes to the applicant's row, over
\* restarts of the applicant process
SpecClient == Init /\ [][ClientSteps({"101"}) \/ ReviewerWrites({2}) \/ ClientRestart]_vars

\* one identity and the clock: the ban and the request window
SpecLimits == Init /\ [][ClientSteps({"101"}) \/ Tick \/ ClientRestart]_vars

\* the handlers for the identities I when every worksheet call succeeds
ClientStepsClean(I) ==
  \/ \E id \in I, username \in Usernames : StartCommand(id, username, IOAllOk, "ok")
  \/ \E id \in I, text \in PasswordTexts : HandlePassword(id, text, IOAllOk, "ok")

\* two identities that may both carry the username of row 2, no call failing
SpecBind == Init /\ [][ClientStepsClean({"101", "102"}) \/ ClientRestart]_vars

\* the records that are put into the cache directly
CacheRecords == {NoRec, get_record_by_row([r \in Rows |-> InitRow(r)], 2, TRUE)}

InitCache ==
  /\ sheet = [r \in Rows |-> InitRow(r)]
  /\ prompted = {}
  /\ processed_records = {}
  /\ chk = ChkIdle
  /\ dec = [d \in Slots |-> DecIdle]
  /\ termW = [r \in Rows |-> 0]
  /\ cache_enabled \in BOOLEAN
  /\ user_cache = <<>>
  /\ user_attempts = [id \in {} |-> [count |-> 0, banned_until |-> NoBan]]
  /\ logged_user_requests = [id \in {} |-> <<>>]
  /\ now = 0
  /\ conv = [id \in TelegramIds |-> ConvIdle]
  /\ reply = [id \in TelegramIds |-> NoMessage]
  /\ puts = <<>>
  /\ last = NoEvent

\* the cache alone, filled by direct calls
SpecCache ==
  InitCache /\ [][\/ \E key \in TelegramIds, rec \in CacheRecords : CachePut(key, rec)
                  \/ \E key \in TelegramIds : CacheGet(key)
                  \/ ClientRestart]_vars

\* the applicant bot configured with enable_cache false
InitUncached == InitCache /\ ~cache_enabled

\* one identity and the clock when every lookup reads the worksheet
SpecUncached == InitUncached /\ [][ClientSteps({"101"}) \/ Tick \/ ClientRestart]_vars

\* one decision handler per process lifetime, and the Pending mark that a
\* sweep writes from the scan it made when it began
SpecLink ==
  InitDecide /\ [][DecideSteps({1}) \/ ManagerRestart \/ (\E r \in Rows : ReviewerMark(r))]_vars

\* both bots on one sheet: the prompts of the rows have been delivered (to
\* some reviewers, so that no row is marked), no applicant has come yet
InitBoth ==
  /\ sheet = [r \in Rows |-> InitRow(r)]
  /\ prompted = Rows
  /\ processed_records = {}
  /\ chk = ChkIdle
  /\ dec = [d \in Slots |-> DecIdle]
  /\ termW = [r \in Rows |-> 0]
  /\ ClientInit

\* one applicant and one decision handler at a time, and the sweep
SpecBoth ==
  InitBoth /\ [][ClientStepsClean({"101"}) \/ DecideSteps({1}) \/ CheckNext]_vars

\* the action parts of the callback data that can reach handle_decision: the
\* handler is registered without a pattern, and the data is chosen by the
\* client that sends the callback
CallbackActions == Actions \cup {"other"}

\* the decision handler in slot 1 for any callback data, over restarts
DecideAnySteps ==
  \/ \E user \in ReviewerUsers, action \in CallbackActions, r \in Rows,
        readOk \in BOOLEAN, w \in WriteResults :
        DecideStart(1, user, action, r, readOk, w)
  \/ \E ok \in BOOLEAN : DecideReply(1, ok)
  \/ \E delivered \in BOOLEAN : DecideNotify(1, delivered)
  \/ \E ok \in BOOLEAN : DecideFinish(1, ok)
  \/ \E ok \in BOOLEAN : DecideExcept(1, ok)

SpecCallback == InitDecide /\ [][DecideAnySteps \/ ManagerRestart]_vars

\* the sweep and one decision handler at a time on the dispatched sheet
SpecAccess == InitDecide /\ [][CheckNext \/ DecideSteps({1})]_vars

\* the Status cells as the form or a person editing the spreadsheet may have
\* left them: empty, or the word in lower case that the sweep also accepts
TypedStatuses == {"", "pending"}

\* the reviewer process starts on such a sheet; the applicant of row 2 has
\* logged in
InitTyped ==
  /\ sheet \in {sh \in [Rows -> {[InitRow(r) EXCEPT !.Status = st] :
                                   r \in Rows, st \in TypedStatuses}] :
                  \A r \in Rows :
                    sh[r] = [InitRow(r) EXCEPT !.Status = sh[r].Status]}
  /\ prompted = {}
  /\ processed_records = {}
  /\ chk = ChkIdle
  /\ dec = [d \in Slots |-> DecIdle]
  /\ termW = [r \in Rows |-> 0]
  /\ ClientInit

\* the sweep and one decision handler at a time on such a sheet
SpecTyped == InitTyped /\ [][CheckNext \/ DecideSteps({1}) \/ ApplicantWrites]_vars

(***************************************************************************)
(* C1.  Two (or more) accept actions on the same undecided row, handled by *)
(* handle_decision in one process lifetime with their awaits interleaved,  *)
(* none of them meeting a failed call: exactly one of them ends with the   *)
(* success answer, every other one is answered Conflict, exactly one       *)
(* Status=Accepted write has reached the sheet and the row holds Accepted. *)
(***************************************************************************)
OnRow(r) == {d \in Slots : dec[d].pc # "idle" /\ dec[d].row = r}

C1_Case(r) ==
  /\ Cardinality(OnRow(r)) >= 2
  /\ \A d \in OnRow(r) : /\ dec[d].pc = "done"
                          /\ dec[d].action = "accept"
                          /\ dec[d].out \in {"Success", "Conflict"}

C1_ExactlyOneAccept ==
  \A r \in Rows :
    C1_Case(r) =>
      /\ Cardinality({d \in OnRow(r) : dec[d].out = "Success"}) = 1
      /\ termW[r] = 1
      /\ sheet[r].Status = "Accepted"

C1_Witness ==
  \E r \in Rows :
    /\ C1_Case(r)
    /\ \E d \in OnRow(r) : dec[d].out = "Conflict"
    /\ \E d \in OnRow(r) : dec[d].out = "Success"

(***************************************************************************)
(* C2.  A row whose Status is Accepted or Rejected keeps a terminal Status *)
(* in every step of the sweep, the decisions and the applicant's writes.   *)
(***************************************************************************)
C2_StatusMonotone ==
  [][\A r \in Rows : sheet[r].Status \in Terminal => sheet'[r].Status \in Terminal]_vars

(***************************************************************************)
(* C3.  Over decisions, failed calls and restarts of the reviewer process, *)
(* a row receives at most one terminal Status write; and a decision that   *)
(* starts on a row that is in processed_records, or whose Status in the    *)
(* sheet is terminal, writes nothing and is answered Conflict (or, before  *)
(* the guards are reached, refused for a non-reviewer; or, when the        *)
(* re-read itself fails, answered record-not-found).                       *)
(***************************************************************************)
C3_StartsGuarded(d) ==
  LET r == dec'[d].row IN
  (/\ dec[d].pc = "idle"
   /\ dec'[d].pc # "idle"
   /\ (r \in processed_records \/ sheet[r].Status \in Terminal))
  => /\ sheet' = sheet
     /\ termW' = termW
     /\ processed_records' = processed_records
     /\ dec'[d].pc = "reply"
     /\ dec'[d].out \in {"Conflict", "Denied", "NotFound"}
     /\ (r \in processed_records => dec'[d].out \in {"Conflict", "Denied"})

C3_AtMostOneTerminalWrite ==
  /\ [](\A r \in Rows : termW[r] <= 1)
  /\ [][\A d \in Slots : C3_StartsGuarded(d)]_vars

C3_Witness ==
  \E d \in Slots :
    /\ dec[d].pc = "done"
    /\ dec[d].out = "Conflict"
    /\ dec[d].row \notin processed_records
    /\ termW[dec[d].row] = 1

(***************************************************************************)
(* C5.  As claimed: a handler that failed after its claim leaves the row   *)
(* in processed_records.                                                   *)
(***************************************************************************)
C5_RowStaysClaimed ==
  \A d \in Slots :
    (dec[d].pc = "done" /\ dec[d].out \in {"Error", "CrashClaimed"})
      => dec[d].row \in processed_records

(***************************************************************************)
(* C5, amended.  The except clause reports the failure and then removes    *)
(* the row from processed_records; the set is left as it is only when the  *)
(* report itself fails.  A later action on the row therefore passes step 1 *)
(* and is decided by the re-read Status.                                   *)
(***************************************************************************)
C5_RowReleasedOnFailure ==
  [][\A d \in Slots :
       (dec[d].pc = "except" /\ dec'[d].pc = "done")
       => IF dec'[d].out \in {"Error", "ErrorEarly"}
          THEN dec[d].row \notin processed_records'
          ELSE processed_records' = processed_records]_vars

C5_Witness ==
  \E d1 \in Slots, d2 \in Slots :
    /\ d1 < d2
    /\ dec[d1].pc = "done" /\ dec[d1].out = "Error"
    /\ dec[d2].row = dec[d1].row
    /\ dec[d2].pc = "done" /\ dec[d2].out = "Success"

(***************************************************************************)
(* C6.  As claimed: after a dispatch that reached some reviewers and       *)
(* failed for others, the row is marked Pending.                           *)
(***************************************************************************)
C6_PartialStillMarked ==
  (chk.pc = "sleep" /\ chk.some /\ ~chk.all)
    => sheet[chk.pending[chk.idx]].Status = "Pending"

(***************************************************************************)
(* C6, amended.  A dispatch that failed for at least one reviewer is       *)
(* counted in failed_count and the sweep writes nothing for the row; the   *)
(* row is marked Pending, and counted in success_count, only when the      *)
(* prompt reached every configured reviewer.                               *)
(***************************************************************************)
C6_MarkedOnlyWhenSentToAll ==
  [][(chk.pc = "send" /\ chk'.pc = "sleep")
     => IF chk'.all
        THEN /\ sheet'[chk.pending[chk.idx]].Status = "Pending"
             /\ chk'.succ = chk.succ + 1 /\ chk'.fail = chk.fail
        ELSE /\ sheet' = sheet
             /\ chk'.fail = chk.fail + 1 /\ chk'.succ = chk.succ]_vars

C6_Witness ==
  /\ chk.pc = "sleep" /\ chk.some /\ ~chk.all
  /\ chk.fail >= 1
  /\ sheet[chk.pending[chk.idx]].Status = ""

(***************************************************************************)
(* C4.  Whenever the applicant bot shows a status (show_status, reached    *)
(* from /start or from the password step, no read failing) for a row whose *)
(* Status cell is Accepted and whose Group_Link cell is a link L, the      *)
(* message is the acceptance message with L, whatever record the cache or  *)
(* the session held before.                                                *)
(***************************************************************************)
C4_ShowsStatus(id) ==
  /\ last'.op \in {"start", "password"}
  /\ last'.id = id
  /\ last'.clean
  /\ reply'[id].kind \in StatusKinds

C4_StatusPropagates ==
  [][\A id \in TelegramIds :
       C4_ShowsStatus(id) =>
         LET r == conv'[id].user_record.row_number
         IN (sheet[r].Status = "Accepted" /\ sheet[r].Group_Link # "")
              => reply'[id] = Message("accepted", sheet[r].Group_Link)]_vars

(***************************************************************************)
(* C7.  With ban threshold N = MaxUnknownAttempts: a /start of a banned    *)
(* identity (now < banned_until) is rejected and changes neither the       *)
(* attempts nor the sheet; otherwise a failed lookup that is the N-th in a *)
(* row sets banned_until = now + UnknownBanMinutes, an earlier one counts  *)
(* one more without a ban; the first /start at or after banned_until       *)
(* starts from a cleared record, so that a failure then leaves count 1     *)
(* and a success leaves no record.                                         *)
(***************************************************************************)
C7_Banned(id) ==
  /\ id \in DOMAIN user_attempts
  /\ user_attempts[id].banned_until # NoBan
  /\ now < user_attempts[id].banned_until

C7_Expired(id) ==
  /\ id \in DOMAIN user_attempts
  /\ user_attempts[id].banned_until # NoBan
  /\ now >= user_attempts[id].banned_until

\* the failures counted so far, 0 when the record is absent or its ban is over
C7_Count(id) ==
  IF id \notin DOMAIN user_attempts \/ C7_Expired(id) THEN 0 ELSE user_attempts[id].count

C7_Start(id) == last'.op = "start" /\ last'.id = id

C7_BanThreshold ==
  [][\A id \in TelegramIds :
       C7_Start(id) =>
         IF C7_Banned(id)
         THEN /\ reply'[id].kind = "banned"
              /\ user_attempts' = user_attempts
              /\ sheet' = sheet
         ELSE IF reply'[id].kind = "not_found"
         THEN /\ id \in DOMAIN user_attempts'
              /\ user_attempts'[id].count = C7_Count(id) + 1
              /\ user_attempts'[id].banned_until =
                   (IF C7_Count(id) + 1 >= MaxUnknownAttempts
                    THEN now + UnknownBanMinutes ELSE NoBan)
         ELSE id \notin DOMAIN user_attempts']_vars

\* a /start was rejected while the ban runs, some minutes after it was set
C7_Witness ==
  \E id \in TelegramIds :
    /\ C7_Banned(id)
    /\ user_attempts[id].count = MaxUnknownAttempts
    /\ user_attempts[id].banned_until < now + UnknownBanMinutes
    /\ reply[id].kind = "banned"

(***************************************************************************)
(* C8.  With window W = LoggedLimitMinutes and cap M = MaxLoggedRequests:  *)
(* a /start of a logged-in identity with fewer than M recorded requests    *)
(* younger than W is admitted and its time is appended to them; with M or  *)
(* more it is rejected and the list holds exactly those requests, not the  *)
(* new one.  Requests W or more old do not count.                          *)
(***************************************************************************)
C8_Requests(l, id) == IF id \in DOMAIN l THEN l[id] ELSE <<>>

C8_InWindow(id) == SelectSeq(C8_Requests(logged_user_requests, id), LAMBDA q : now - q < LoggedLimitMinutes)

C8_SlidingWindow ==
  [][\A id \in TelegramIds :
       (C7_Start(id) /\ reply'[id].kind \in StatusKinds \cup {"rate_limited"}) =>
         IF Len(C8_InWindow(id)) < MaxLoggedRequests
         THEN /\ reply'[id].kind \in StatusKinds
              /\ C8_Requests(logged_user_requests', id) = Append(C8_InWindow(id), now)
         ELSE /\ reply'[id].kind = "rate_limited"
              /\ C8_Requests(logged_user_requests', id) = C8_InWindow(id)]_vars

\* a request was rejected with M requests in the window, after time had passed
C8_Witness ==
  \E id \in TelegramIds :
    /\ reply[id].kind = "rate_limited"
    /\ Len(C8_Requests(logged_user_requests, id)) = MaxLoggedRequests
    /\ now > 0
    /\ \A i \in 1..MaxLoggedRequests : now - logged_user_requests[id][i] < LoggedLimitMinutes

(***************************************************************************)
(* C9.  In WAITING_PASSWORD, the Password of the row, when the write of    *)
(* the Logged_In cell succeeds, ends the conversation with a status        *)
(* message and leaves Logged_In = Yes in the row; any other text changes   *)
(* nothing and keeps WAITING_PASSWORD.  A /start (no read failing, the     *)
(* identity not banned and not over its request cap) of an identity that   *)
(* has no cached record and whose first row by Telegram_ID has a Logged_In *)
(* of Yes is answered with a status message and no password prompt.        *)
(***************************************************************************)
C9_Password(id) ==
  (last'.op = "password" /\ last'.id = id /\ last'.clean) =>
      IF last'.text = sheet[conv[id].user_record.row_number].Password
      THEN /\ conv'[id].state = "END"
           /\ reply'[id].kind \in StatusKinds
           /\ sheet'[conv[id].user_record.row_number].Logged_In = "Yes"
      ELSE /\ conv' = conv
           /\ sheet' = sheet
           /\ reply'[id].kind = "wrong_password"

C9_FreshStart(id) ==
    LET r == FirstRow({q \in Rows : sheet[q].Telegram_ID = id})
    IN (/\ last'.op = "start" /\ last'.id = id /\ last'.clean
        /\ ~Truthy(_get_from_cache(cache_enabled, user_cache, id))
        /\ r # 0
        /\ sheet[r].Logged_In = "Yes"
        /\ ~C7_Banned(id)
        /\ Len(C8_InWindow(id)) < MaxLoggedRequests)
       => /\ reply'[id].kind \in StatusKinds
          /\ conv'[id].state = "END"
          /\ conv'[id].user_record.row_number = r

C9_LoginPersists ==
  [][\A id \in TelegramIds : C9_Password(id) /\ C9_FreshStart(id)]_vars

\* the applicant has logged in, and a later /start of a process with an
\* empty request window was answered with a status
C9_Witness ==
  \E id \in TelegramIds :
    /\ conv[id].state = "END"
    /\ reply[id].kind \in StatusKinds
    /\ sheet[conv[id].user_record.row_number].Logged_In = "Yes"
    /\ sheet[conv[id].user_record.row_number].Telegram_ID = id
    /\ C8_Requests(logged_user_requests, id) = <<now>>

(***************************************************************************)
(* C10.  The cache never holds more than MaxCacheSize entries; after       *)
(* MaxCacheSize + 1 calls of _set_cache with distinct keys on an empty     *)
(* cache, the first key is absent and the other keys are present.          *)
(***************************************************************************)
C10_DistinctPuts ==
  /\ cache_enabled
  /\ Len(puts) = MaxCacheSize + 1
  /\ \A i, j \in 1..Len(puts) : i # j => puts[i] # puts[j]

C10_CacheBounded ==
  /\ Len(user_cache) <= MaxCacheSize
  /\ C10_DistinctPuts =>
       /\ CachePos(user_cache, puts[1]) = 0
       /\ \A i \in 2..Len(puts) : CachePos(user_cache, puts[i]) # 0

C10_Witness == C10_DistinctPuts /\ Len(user_cache) = MaxCacheSize

(***************************************************************************)
(* C11.  A Telegram_ID cell that holds an identity is never overwritten    *)
(* with another one by a /start, whoever sends it.                         *)
(***************************************************************************)
C11_BindOnce ==
  [][\A r \in Rows :
       sheet[r].Telegram_ID # "" => sheet'[r].Telegram_ID = sheet[r].Telegram_ID]_vars

(***************************************************************************)
(* C12.  A /start of an identity that a row of the sheet is bound to can   *)
(* miss its row only through a worksheet error; such a /start neither      *)
(* creates nor increments the identity's entry in user_attempts.           *)
(***************************************************************************)
C12_IOErrorNotCounted ==
  [][\A id \in TelegramIds :
       (/\ last'.op = "start" /\ last'.id = id
        /\ \E r \in Rows : sheet[r].Telegram_ID = id)
       => \/ id \notin DOMAIN user_attempts'
          \/ id \in DOMAIN user_attempts /\ user_attempts'[id] = user_attempts[id]]_vars

(***************************************************************************)
(* C13.  No worksheet operation hands a failure to its caller as an        *)
(* exception: handle_decision never goes from its worksheet calls into its *)
(* except clause, and check_command is never left by an exception of the   *)
(* write that marks a row.                                                 *)
(***************************************************************************)
C13_NoStoreException ==
  [][/\ \A d \in Slots : dec[d].pc = "idle" => dec'[d].pc # "except"
     /\ chk.pc = "send" => chk'.out # "Crash"]_vars

(***************************************************************************)
(* C14.  A handle_decision run is answered with Conflict only for a row    *)
(* that is in processed_records or whose Status is neither empty nor       *)
(* Pending, and no step of a run that carries the Conflict answer changes  *)
(* a cell, processed_records, or reaches the applicant notification.       *)
(***************************************************************************)
C14_ConflictStep(d) ==
  (dec'[d] # dec[d] /\ dec'[d].out = "Conflict") =>
     /\ sheet' = sheet
     /\ termW' = termW
     /\ processed_records' = processed_records
     /\ dec'[d].pc \in {"reply", "done", "except"}
     /\ dec[d].pc = "idle" =>
          \/ dec'[d].row \in processed_records
          \/ sheet[dec'[d].row].Status \notin {"", "Pending"}

C14_ConflictNoEffect == [][\A d \in Slots : C14_ConflictStep(d)]_vars

\* a run was answered with Conflict for a row that another run of this
\* process had decided
C14_Witness ==
  \E d1, d2 \in Slots :
    /\ dec[d1].pc = "done" /\ dec[d1].out = "Success"
    /\ dec[d2].pc = "done" /\ dec[d2].out = "Conflict"
    /\ dec[d2].row = dec[d1].row
    /\ dec[d2].row \in processed_records

(***************************************************************************)
(* C15.  handle_decision goes from its Status write to the notification    *)
(* exactly when the Logged_In cell it re-read is true, and then the row    *)
(* holds the decided Status; the notification, delivered or not, changes   *)
(* no cell, so the row still holds the decided Status after it.            *)
(***************************************************************************)
C15_Decided(d, sh) == sh[dec[d].row].Status = DecisionStatus(dec[d].action)

C15_Step(d) ==
  /\ (dec[d].pc = "idle" /\ dec'[d].pc \in {"notify", "finish"}) =>
        /\ dec'[d].pc = "notify" <=>
             Lower(sheet[dec'[d].row].Logged_In) \in {"yes", "y", "true", "1"}
        /\ sheet'[dec'[d].row].Status = DecisionStatus(dec'[d].action)
  /\ (dec[d].pc = "notify" /\ dec'[d].pc = "finish") =>
        /\ sheet' = sheet
        /\ C15_Decided(d, sheet')
  /\ dec'[d].sent # "None" => dec[d].pc \in {"notify", "finish"}

C15_NotifyKeepsStatus == [][\A d \in Slots : C15_Step(d)]_vars

\* a notification failed, and the row holds the decided Status
C15_Witness ==
  \E d \in Slots :
    /\ dec[d].pc = "finish" /\ dec[d].sent = "False"
    /\ C15_Decided(d, sheet)



(***************************************************************************)
(* C16.  A /start of a banned identity is answered with the ban message    *)
(* and ends the conversation.  Otherwise, when no worksheet call fails,    *)
(* the record of the identity is its cached record, else the first row     *)
(* with its Telegram_ID, else the first row with its username; without     *)
(* such a record the conversation ends and one failed attempt is counted;  *)
(* with a record whose Logged_In is true the conversation ends with the    *)
(* status (or with the rate-limit message when the request window is       *)
(* full) and no password is asked for; with a record whose Logged_In is    *)
(* not true the conversation waits for the password.                       *)
(***************************************************************************)
C16_Expected(id, username) ==
  LET cached == _get_from_cache(cache_enabled, user_cache, id)
      rowT == FirstRow({q \in Rows : sheet[q].Telegram_ID = id})
      rowU == FirstRow({q \in Rows : NormUsername(sheet[q].Username) = NormUsername(username)})
  IN IF Truthy(cached) THEN cached
     ELSE IF rowT # 0 THEN get_record_by_row(sheet, rowT, TRUE)
     ELSE IF username # "" /\ rowU # 0 THEN get_record_by_row(sheet, rowU, TRUE)
     ELSE NoRec

C16_Start(id) ==
  LET rec == C16_Expected(id, last'.text)
      loggedIn == Lower(rec.Logged_In) \in {"yes", "y", "true", "1"}
  IN IF C7_Banned(id)
     THEN reply'[id].kind = "banned" /\ conv'[id].state = "END"
     ELSE last'.clean =>
       IF ~Truthy(rec)
       THEN /\ reply'[id].kind = "not_found"
            /\ conv'[id].state = "END"
            /\ user_attempts'[id].count = C7_Count(id) + 1
       ELSE IF loggedIn
       THEN /\ conv'[id].state = "END"
            /\ reply'[id].kind \in StatusKinds \cup {"rate_limited"}
            /\ reply'[id].kind = "rate_limited" <=>
                  Len(C8_InWindow(id)) >= MaxLoggedRequests
            /\ conv'[id].user_record.row_number = rec.row_number
       ELSE /\ conv'[id].state = "WAITING_PASSWORD"
            /\ reply'[id].kind = "welcome"
            /\ conv'[id].user_record.row_number = rec.row_number

C17_ShowsStatus(id) ==
  /\ last'.op \in {"start", "password"}
  /\ last'.id = id
  /\ last'.status_read
  /\ reply'[id].kind \in StatusKinds

C17_Outcome(status) ==
  IF Lower(status) = "accepted" THEN "accepted"
  ELSE IF Lower(status) = "rejected" THEN "rejected"
  ELSE "pending"

C17_DisplayIsFresh ==
  [][\A id \in TelegramIds :
       C17_ShowsStatus(id) =>
         LET r == conv'[id].user_record.row_number
         IN /\ reply'[id].kind = C17_Outcome(sheet[r].Status)
            /\ Lower(conv'[id].user_record.Status) = Lower(sheet[r].Status)
            /\ Lower(_get_from_cache(cache_enabled, user_cache', id).Status)
                 = Lower(sheet[r].Status)]_vars

(***************************************************************************)
(* C18.  A /start whose lookup finds a row leaves no entry of the identity *)
(* in user_attempts, whatever it held before; and a failed lookup that     *)
(* comes after an exchange in which the row was found counts 1, so that    *)
(* it bans only where the threshold is 1: the failures from before the     *)
(* success are not added to it.                                            *)
(***************************************************************************)
C18_FoundKinds == {"welcome", "rate_limited", "wrong_password"} \cup StatusKinds

C18_ClearedBySuccess ==
  [][\A id \in TelegramIds :
       C7_Start(id) =>
         /\ reply'[id].kind \in C18_FoundKinds => id \notin DOMAIN user_attempts'
         /\ (reply[id].kind \in C18_FoundKinds /\ reply'[id].kind = "not_found")
              => /\ id \in DOMAIN user_attempts'
                 /\ user_attempts'[id].count = 1
                 /\ user_attempts'[id].banned_until =
                      (IF 1 >= MaxUnknownAttempts THEN now + UnknownBanMinutes ELSE NoBan)]_vars

\* a lookup has failed after one that had found the row in the same run of
\* the process (the session still holds that record): it counts as the first
C18_Witness ==
  \E id \in TelegramIds :
    /\ reply[id].kind = "not_found"
    /\ Truthy(conv[id].user_record)
    /\ id \in DOMAIN user_attempts
    /\ user_attempts[id].count = 1
(***************************************************************************)
(* C19.  A call of update_user_fields by a handler (the write of the       *)
(* Telegram_ID cell in /start, of the Logged_In cell in the password       *)
(* step), where no status display refreshes the record after it: when the  *)
(* write succeeds, the record the handler keeps and the cache entry of the *)
(* caller are the record passed in with the written field replaced; when   *)
(* the write raises, the handler keeps the record passed in and the cache  *)
(* is as it was before the call.                                           *)
(***************************************************************************)
C19_Call(id) ==
  /\ last'.op \in {"start", "password"}
  /\ last'.id = id
  /\ last'.write # "none"

\* the record passed in: the one of the session in the password step, the
\* one the lookup by username has read (and cached) in /start
C19_Input(id) ==
  IF last'.op = "password" THEN conv[id].user_record
  ELSE get_record_by_row(sheet,
         FirstRow({q \in Rows : NormUsername(sheet[q].Username) = NormUsername(last'.text)}),
         TRUE)

C19_Written(id) ==
  IF last'.op = "password" THEN [C19_Input(id) EXCEPT !.Logged_In = "Yes"]
  ELSE [C19_Input(id) EXCEPT !.Telegram_ID = id]

C19_NoRefresh(id) ==
  \/ reply'[id].kind \in {"welcome", "rate_limited"}
  \/ Lower(sheet[C19_Input(id).row_number].Status) = Lower(C19_Input(id).Status)

C19_WriteThrough ==
  [][\A id \in TelegramIds :
       (C19_Call(id) /\ C19_NoRefresh(id)) =>
         IF last'.write = "ok"
         THEN /\ conv'[id].user_record = C19_Written(id)
              /\ cache_enabled => _get_from_cache(cache_enabled, user_cache', id) = C19_Written(id)
         ELSE /\ conv'[id].user_record = C19_Input(id)
              /\ IF last'.op = "password" THEN user_cache' = user_cache
                 ELSE cache_enabled =>
                        _get_from_cache(cache_enabled, user_cache', id) = C19_Input(id)]_vars

\* the binding write of an earlier /start went through to the cache, and the
\* write of Logged_In of the password step has just raised: the cache entry
\* and the record of the session are still the ones from before that call
C19_Witness ==
  \E id \in TelegramIds :
    LET cached == _get_from_cache(cache_enabled, user_cache, id)
    IN /\ last.op = "password" /\ last.id = id
       /\ last.write \in {"fail", "lost"}
       /\ Truthy(cached)
       /\ cached.Telegram_ID = id
       /\ cached.Logged_In = ""
       /\ conv[id].user_record = cached
       /\ Lower(sheet[cached.row_number].Status) = Lower(cached.Status)
(***************************************************************************)
(* C20.  A reviewer's action on a row that is not in processed_records and *)
(* whose Status, read without error, passes the test of the sweep (empty,  *)
(* or "pending" in any case) is not answered with Conflict.                *)
(***************************************************************************)
C20_SameUndecidedTest ==
  [][\A d \in Slots :
       (/\ dec[d].pc = "idle" /\ dec'[d].pc # "idle"
        /\ dec'[d].row \notin processed_records
        /\ IsPendingRecord(sheet[dec'[d].row].Status))
       => dec'[d].out # "Conflict"]_vars
(***************************************************************************)
(* C21.  A /start answered with "not found" changes nothing but the entry  *)
(* of its identity in user_attempts: the sheet, the cache, the entries of  *)
(* the other identities and the request windows stay as they were.  A      *)
(* password step answered with "wrong password" changes none of the        *)
(* sheet, the cache, user_attempts and the request windows.                *)
(***************************************************************************)
C21_NotFoundStep(id) ==
  (last'.op = "start" /\ last'.id = id /\ reply'[id].kind = "not_found") =>
     /\ sheet' = sheet
     /\ user_cache' = user_cache
     /\ logged_user_requests' = logged_user_requests
     /\ \A k \in TelegramIds \ {id} :
          /\ k \in DOMAIN user_attempts' <=> k \in DOMAIN user_attempts
          /\ k \in DOMAIN user_attempts => user_attempts'[k] = user_attempts[k]

C21_MismatchStep(id) ==
  (last'.op = "password" /\ last'.id = id /\ reply'[id].kind = "wrong_password") =>
     /\ sheet' = sheet
     /\ user_cache' = user_cache
     /\ user_attempts' = user_attempts
     /\ logged_user_requests' = logged_user_requests

C21_FailureFrame ==
  [][\A id \in TelegramIds : C21_NotFoundStep(id) /\ C21_MismatchStep(id)]_vars

\* C21, the password half alone
C21_MismatchFrame == [][\A id \in TelegramIds : C21_MismatchStep(id)]_vars
(***************************************************************************)
(* C22.  A sweep is never left in the step that marks a row (it goes on to *)
(* the pause and the next row, whatever the write returned), and the       *)
(* summary that ends it shows success_count + failed_count equal to the    *)
(* number of rows the scan selected.                                       *)
(***************************************************************************)
C22_SweepEndsWithSummary ==
  [][/\ chk.pc = "send" => chk'.pc \in {"send", "sleep"}
     /\ (chk.pc = "sleep" /\ chk'.pc = "done" /\ chk'.out = "Summary")
          => chk'.succ + chk'.fail = Len(chk.pending)]_vars

\* C22, the count of the summary alone
C22_SummaryCounts ==
  [][(chk.pc = "sleep" /\ chk'.pc = "done" /\ chk'.out = "Summary")
       => chk'.succ + chk'.fail = Len(chk.pending)]_vars
(***************************************************************************)
(* C23.  The cache is a queue of keys in the order of their first          *)
(* insertion.  _set_cache of a key that is present leaves the keys and     *)
(* their order as they are, also at full capacity; of a new key at full    *)
(* capacity removes exactly the first key and appends the new one; of a    *)
(* new key below capacity appends it.  _get_from_cache changes nothing.    *)
(* With caching disabled the cache stays empty and every get returns the   *)
(* empty result.                                                           *)
(***************************************************************************)
C23_Keys(c) == [i \in 1..Len(c) |-> c[i].key]

C23_Has(c, k) == \E i \in 1..Len(c) : c[i].key = k

C23_PutStep ==
  last'.op = "put" =>
    LET k == last'.id
        keys == C23_Keys(user_cache)
    IN IF ~cache_enabled THEN user_cache' = user_cache
       ELSE /\ user_cache'[CachePos(user_cache', k)].key = k
            /\ C23_Keys(user_cache') =
                 (IF C23_Has(user_cache, k) THEN keys
                  ELSE IF Len(user_cache) >= MaxCacheSize THEN Append(Tail(keys), k)
                  ELSE Append(keys, k))

C23_GetStep == last'.op = "get" => user_cache' = user_cache

C23_Disabled ==
  ~cache_enabled =>
     /\ user_cache' = <<>>
     /\ \A k \in TelegramIds : _get_from_cache(cache_enabled, user_cache', k) = NoRec

C23_StrictFIFO == [][C23_PutStep /\ C23_GetStep /\ C23_Disabled]_vars

\* the first key was stored again when the cache was full, then a new key
\* came: the first key is the one that went, although it was the last used
C23_Witness ==
  /\ cache_enabled
  /\ Len(puts) = MaxCacheSize + 2
  /\ \A i, j \in 1..MaxCacheSize : i # j => puts[i] # puts[j]
  /\ puts[MaxCacheSize + 1] = puts[1]
  /\ \A i \in 1..(MaxCacheSize + 1) : puts[i] # puts[MaxCacheSize + 2]
  /\ ~C23_Has(user_cache, puts[1])
  /\ C23_Keys(user_cache) = SubSeq(puts, 2, MaxCacheSize) \o <<puts[MaxCacheSize + 2]>>
(***************************************************************************)
(* C24.  The step of handle_decision that writes the decision: when the    *)
(* write has returned, an accept of a row whose committee has a link L has *)
(* left Status = Accepted and Group_Link = L; a reject, or an accept of a  *)
(* committee without a link, has left the new Status and the Group_Link    *)
(* the row had.  No other cell and no other row has changed, and a write   *)
(* that raised has changed either all the cells of its batch or none.      *)
(***************************************************************************)
C24_After(r, action) ==
  IF action = "accept" /\ CommitteeLink(CommitteeOf(r)) # ""
  THEN [sheet[r] EXCEPT !.Status = "Accepted", !.Group_Link = CommitteeLink(CommitteeOf(r))]
  ELSE [sheet[r] EXCEPT !.Status = IF action = "accept" THEN "Accepted" ELSE "Rejected"]

C24_WriteStep(d) ==
  (dec[d].pc = "idle" /\ dec'[d].pc \in {"notify", "finish", "except"} /\ dec'[d].out = "none") =>
     LET r == dec'[d].row
         after == [sheet EXCEPT ![r] = C24_After(r, dec'[d].action)]
     IN IF dec'[d].pc = "except" THEN sheet' \in {sheet, after} ELSE sheet' = after

C24_BatchedWrite == [][\A d \in Slots : C24_WriteStep(d)]_vars

\* a row that carried a link from an earlier accept was rejected: it holds
\* Rejected and still the link
C24_Witness ==
  \E d \in Slots :
    /\ dec[d].pc \in {"notify", "finish"}
    /\ dec[d].action = "reject"
    /\ sheet[dec[d].row].Status = "Rejected"
    /\ sheet[dec[d].row].Group_Link # ""
(***************************************************************************)
(* C25.  A /start that binds its identity to a row through the username    *)
(* lookup (it writes the Telegram_ID cell) does not show the status of the *)
(* row: the identity is asked for the password first.                      *)
(***************************************************************************)
C25_PasswordBeforeStatus ==
  [][\A id \in TelegramIds :
       (last'.op = "start" /\ last'.id = id /\ last'.write # "none")
       => reply'[id].kind \notin StatusKinds]_vars
(***************************************************************************)
(* C26.  A step of the reviewer bot (of check_command or of                *)
(* handle_decision) changes no cell of the sheet but Status and            *)
(* Group_Link; a step of the applicant bot changes no cell but Telegram_ID *)
(* and Logged_In.                                                          *)
(***************************************************************************)
C26_ReviewerStep == dec' # dec \/ chk' # chk

C26_ReviewerCells(r) ==
  sheet'[r] = [sheet[r] EXCEPT !.Status = sheet'[r].Status,
                               !.Group_Link = sheet'[r].Group_Link]

C26_ApplicantCells(r) ==
  sheet'[r] = [sheet[r] EXCEPT !.Telegram_ID = sheet'[r].Telegram_ID,
                               !.Logged_In = sheet'[r].Logged_In]

C26_DisjointColumns ==
  [][\A r \in Rows :
       IF C26_ReviewerStep THEN C26_ReviewerCells(r) ELSE C26_ApplicantCells(r)]_vars

\* a row carries the cells of both writers: the applicant has bound it and
\* logged in, a reviewer has accepted it
C26_Witness ==
  \E r \in Rows :
    /\ sheet[r].Telegram_ID = "101"
    /\ sheet[r].Logged_In = "Yes"
    /\ sheet[r].Status = "Accepted"
    /\ sheet[r].Group_Link = CommitteeLink(CommitteeOf(r))
    /\ sheet[r].Group_Link # ""
    /\ termW[r] = 1
(***************************************************************************)
(* C27.  No step of a handle_decision run whose callback data has an       *)
(* action part other than accept and reject changes a Status cell or       *)
(* processed_records.                                                      *)
(***************************************************************************)
C27_OnlyListedActions ==
  [][\A d \in Slots :
       (dec'[d] # dec[d] /\ dec'[d].action \notin {"accept", "reject", "none"})
       => /\ \A r \in Rows : sheet'[r].Status = sheet[r].Status
          /\ processed_records' = processed_records]_vars
(***************************************************************************)
(* C28.  A /check or a decision callback sent by an identity that is not   *)
(* in admin_ids is answered with the refusal at once: its run is never at  *)
(* a step that reads or writes the sheet or sends a prompt or a            *)
(* notification, and no step of it changes the sheet, the delivered        *)
(* prompts or processed_records.                                           *)
(***************************************************************************)
C28_Unchanged ==
  /\ sheet' = sheet
  /\ prompted' = prompted
  /\ processed_records' = processed_records
  /\ termW' = termW

C28_UnlistedRefused ==
  [][/\ \A d \in Slots :
          (dec'[d] # dec[d] /\ "unlisted" \in {dec[d].sender, dec'[d].sender})
          => /\ C28_Unchanged
             /\ dec'[d].pc \in {"reply", "done"}
             /\ dec'[d].out \in {"Denied", "Crash"}
     /\ (chk' # chk /\ chk'.sender = "unlisted")
          => /\ C28_Unchanged
             /\ chk'.pc = "done"
             /\ chk'.out = "Denied"]_vars

\* an unlisted identity has sent /check and pressed a button of a row that
\* is still undecided: both were refused
C28_Witness ==
  \E d \in Slots :
    /\ dec[d].sender = "unlisted" /\ dec[d].pc = "reply" /\ dec[d].out = "Denied"
    /\ sheet[dec[d].row].Status \in {"", "Pending"}
    /\ dec[d].row \notin processed_records
    /\ chk.sender = "unlisted" /\ chk.pc = "done" /\ chk.out = "Denied"
(***************************************************************************)
(* C29.  In every state, each entry of user_attempts has a count between 1 *)
(* and the ban threshold MaxUnknownAttempts, and its banned_until is set   *)
(* exactly when the count has reached the threshold.                       *)
(***************************************************************************)
C29_AttemptRecordsBounded ==
  \A id \in DOMAIN user_attempts :
    /\ 1 <= user_attempts[id].count
    /\ user_attempts[id].count <= MaxUnknownAttempts
    /\ user_attempts[id].banned_until # NoBan <=> user_attempts[id].count >= MaxUnknownAttempts

\* an entry at the threshold whose ban is over but which no /start has
\* cleared yet, after a /start that was refused during the ban
C29_Witness ==
  \E id \in DOMAIN user_attempts :
    /\ user_attempts[id].count = MaxUnknownAttempts
    /\ user_attempts[id].banned_until # NoBan
    /\ now >= user_attempts[id].banned_until
    /\ reply[id].kind = "banned"
(***************************************************************************)
(* C30.  When handle_decision tries the notification of the applicant, the *)
(* write of its decision has reached the sheet: the row holds the Status   *)
(* of the decision.  A run whose write raised goes to the except clause    *)
(* and ends there without a notification.                                  *)
(***************************************************************************)
C30_NotifyStep(d) ==
  (dec[d].sent = "None" /\ dec'[d].sent # "None") =>
     /\ dec[d].pc = "notify"
     /\ termW[dec[d].row] >= 1
     /\ sheet[dec[d].row].Status =
          (IF dec[d].action = "accept" THEN "Accepted" ELSE "Rejected")

C30_ExceptStep(d) ==
  dec[d].pc = "except" => (dec'[d].sent = "None" /\ dec'[d].pc \in {"except", "done"})

C30_NotifyAfterWrite == [][\A d \in Slots : C30_NotifyStep(d) /\ C30_ExceptStep(d)]_vars

\* one run has written its decision and notified the applicant; another
\* one, whose write failed, has ended with the error answer and its row is
\* still undecided
C30_Witness ==
  \E d, e \in Slots :
    /\ dec[d].pc = "finish" /\ dec[d].sent = "True"
    /\ sheet[dec[d].row].Status \in Terminal
    /\ dec[e].pc = "done" /\ dec[e].out = "Error"
    /\ sheet[dec[e].row].Status \notin Terminal

====
